---- MODULE Spec2Model ----
(***************************************************************************)
(* Vajra: provider abstraction and adaptive model resolution.              *)
(*                                                                         *)
(* The model follows src/src/providers.ts (ChatProvider, ProviderManager,  *)
(* the adapters) and src/src/config.ts (ConfigManager).  Every await of    *)
(* the code is a point where another handler or the self-hosted server     *)
(* may act; everything between two awaits is one atomic step.              *)
(*                                                                         *)
(* Text (error messages, chat contents) is a sequence of tokens, so that   *)
(* String.includes is a contiguous sub-sequence test.                      *)
(***************************************************************************)
EXTENDS Integers, Sequences, FiniteSets, TLC

\* Number of prompts the user submits in one behaviour.
MaxPrompts == 1
\* Largest number of models installed on the self-hosted server.
MaxInstalled == 2

Prompts == 1..MaxPrompts

\* -------------------------------------------------------------------------
\* Sequences as JavaScript arrays
\* -------------------------------------------------------------------------

Range(s) == {s[i] : i \in 1..Len(s)}

\* Array.prototype.includes
Includes(arr, x) == \E i \in 1..Len(arr) : arr[i] = x

\* String.prototype.includes on token sequences
Contains(text, pat) ==
    \E i \in 0..(Len(text) - Len(pat)) :
        \A k \in 1..Len(pat) : text[i + k] = pat[k]

\* -------------------------------------------------------------------------
\* Model names
\* -------------------------------------------------------------------------

\* config.get('defaultModel', 'qwen2.5-coder:7b') and the constant returned by
\* getSmartDefaultModel when the probe reports nothing
FallbackModel == "qwen2.5-coder:7b"

codingPriority ==
    << "qwen2.5-coder:7b", "qwen2.5-coder:1.5b", "deepseek-coder-v2:16b",
       "deepseek-coder:6.7b", "codellama:7b", "codellama:13b",
       "starcoder2:7b", "llama3.3:70b", "llama3.2:3b" >>

\* Models the self-hosted server may hold: two of the priority list and two
\* that are not on it.
Installable == {"qwen2.5-coder:7b", "codellama:7b", "llama2:latest", "mistral:7b"}

\* A model of a hosted backend, and the values the stored default model takes
\* while the self-hosted backend is selected: the factory default, a model
\* that is not on the priority list, a model that is never installed.
HostedModel == "gpt-4"
OllamaDefaults == {FallbackModel, "llama2:latest", "nonexistent:1b"}

NoModel == "<none>"

\* Every duplicate-free list of at most n installable models.
RECURSIVE ListsUpTo(_)
ListsUpTo(n) ==
    IF n = 0 THEN {<< >>}
    ELSE LET shorter == ListsUpTo(n - 1)
         IN  shorter \cup
             {Append(s, m) : s \in {t \in shorter : Len(t) = n - 1},
                             m \in Installable}

Inventories == {s \in ListsUpTo(MaxInstalled) : Cardinality(Range(s)) = Len(s)}

\* -------------------------------------------------------------------------
\* Registry (ProviderManager)
\* -------------------------------------------------------------------------

ProviderNames ==
    << "openai", "anthropic", "qwen", "deepseek", "mistral", "gemini", "groq",
       "ollama", "openrouter", "huggingface" >>

\* ProviderManager.getProvider: the adapter registered under name, if any
getProvider(name) == IF Includes(ProviderNames, name) THEN name ELSE NoModel

apiKeyProviders == Range(ProviderNames) \ {"ollama"}

\* isConfigured without the look-up of the key
isConfigured_Always(name, keys) == TRUE

\* AIProvider.isConfigured: the self-hosted adapter is always configured, a
\* credential-bearing adapter iff its key is a non-empty string
isConfigured(name, keys) == name = "ollama" \/ name \in keys

\* ProviderManager.getAllProviders: Array.from(this.providers.values())
getAllProviders == ProviderNames

\* The filter passing only the adapters that hold a key
getConfiguredProviders_KeyedOnly(keys) ==
    SelectSeq(ProviderNames, LAMBDA name : name \in keys)

\* ProviderManager.getConfiguredProviders
getConfiguredProviders(keys) ==
    SelectSeq(getAllProviders, LAMBDA name : isConfigured(name, keys))

\* -------------------------------------------------------------------------
\* Hardware advisor
\* -------------------------------------------------------------------------

MaxMemoryGB == 40

Recommendation(provider, model, notes) ==
    [provider |-> provider, model |-> model, notes |-> notes]

\* The first tier taking 32 GB for less than enough
getModelForHardware_Above32(ramGB, hasGPU) ==
    IF ramGB > 32 /\ hasGPU
    THEN Recommendation("ollama", "qwen2.5-coder:32b", "High-end")
    ELSE IF ramGB >= 16 /\ hasGPU
    THEN Recommendation("ollama", "qwen2.5-coder:14b", "Mid-range")
    ELSE IF ramGB >= 8
    THEN Recommendation("ollama", "qwen2.5-coder:7b", "Standard")
    ELSE Recommendation("ollama", "qwen2.5-coder:1.5b", "Lightweight")

\* ProviderManager.getModelForHardware
getModelForHardware(ramGB, hasGPU) ==
    IF ramGB >= 32 /\ hasGPU
    THEN Recommendation("ollama", "qwen2.5-coder:32b", "High-end")
    ELSE IF ramGB >= 16 /\ hasGPU
    THEN Recommendation("ollama", "qwen2.5-coder:14b", "Mid-range")
    ELSE IF ramGB >= 8
    THEN Recommendation("ollama", "qwen2.5-coder:7b", "Standard")
    ELSE Recommendation("ollama", "qwen2.5-coder:1.5b", "Lightweight")

\* ModelUtils.getSystemRecommendations: the system it assumes
ram == 16

hasGPU == TRUE

CloudOption == Recommendation("qwen", "qwen2.5-coder-7b-instruct", "Cloud")

\* The alternatives taken from the assumed memory itself and left unfiltered
getSystemRecommendations_Unfiltered ==
    [ram |-> ram, hasGPU |-> hasGPU,
     recommended |-> getModelForHardware(ram, hasGPU),
     alternatives |-> << getModelForHardware(ram, hasGPU),
                         getModelForHardware(32, hasGPU), CloudOption >>]

\* ModelUtils.getSystemRecommendations
getSystemRecommendations ==
    LET recommended == getModelForHardware(ram, hasGPU)
    IN  [ram |-> ram, hasGPU |-> hasGPU,
         recommended |-> recommended,
         alternatives |->
             SelectSeq(<< getModelForHardware(8, hasGPU),
                          getModelForHardware(32, hasGPU), CloudOption >>,
                       LAMBDA alt : alt.model # recommended.model)]

\* -------------------------------------------------------------------------
\* Texts
\* -------------------------------------------------------------------------

NoModelsInstalled ==
    << "No", "Ollama", "models", "installed", ".", "Please", "install", "a",
       "model", "first", "." >>

OllamaErrorPrefix == << "Ollama", "error", ":" >>

OllamaNotRunning ==
    << "Ollama", "server", "not", "running", ".", "Please", "start", "Ollama",
       "first", "." >>

ProviderNotFound(name) == << "Provider", name, "not", "found" >>

\* What the self-hosted server answers to POST /api/generate.
OllamaModelMissing(model) == << "model", model, "not", "found" >>

\* Failures a hosted backend or the transport may report.
HostedFailures ==
    { << "Incorrect", "API", "key", "provided" >>,
      << "timeout", "of", "5000ms", "exceeded" >> }

HostedErrorPrefix(name) == << name, "API", "error", ":" >>

ResponseText == << "answer" >>

\* -------------------------------------------------------------------------
\* Resolver and classifier: the synchronous parts
\* -------------------------------------------------------------------------

\* A call returns a value or throws an error with a message.
Returned(value) == [threw |-> FALSE, value |-> value]
Threw(message) == [threw |-> TRUE, value |-> message]

\* How a GET to the self-hosted server can end: no connection, no answer in
\* time, a status outside 2xx, a body without a models field, a models list.
ReplyKinds == {"refused", "timeout", "status", "nolist", "list"}

FailedReplyKinds == {"refused", "timeout", "status"}

Reply(kind, models) == [kind |-> kind, models |-> models]

\* What the transport reports for a call that got no 2xx answer.
TransportMessage(kind) ==
    IF kind = "refused" THEN << "connect", "ECONNREFUSED", "127.0.0.1:11434" >>
    ELSE IF kind = "timeout" THEN << "timeout", "of", "5000ms", "exceeded" >>
    ELSE << "Request", "failed", "with", "status", "code", "500" >>

\* await axios.get(...); response.data.models?.map(m => m.name) || []
modelNames(reply) ==
    IF reply.kind \in FailedReplyKinds THEN Threw(TransportMessage(reply.kind))
    ELSE IF reply.kind = "nolist" THEN Returned(<< >>)
    ELSE Returned(reply.models)

\* The probe letting the failure of the call through
availableOllamaModels_Rethrows(reply) == modelNames(reply)

\* ConfigManager.getAvailableOllamaModels, given how its GET /api/tags ended:
\* catch (error) { return [] }
availableOllamaModels(reply) ==
    IF modelNames(reply).threw THEN Returned(<< >>) ELSE modelNames(reply)

NotAccessible == << "Ollama", "not", "running", "or", "not", "accessible" >>

NoLoadedModels == << "Could", "not", "get", "loaded", "models" >>

\* The status probe returning an empty list for a failed call
getInstalledOllamaModels_Empty(reply) ==
    IF modelNames(reply).threw THEN Returned(<< >>) ELSE modelNames(reply)

\* ModelUtils.getInstalledOllamaModels, given how its GET /api/tags ended; of
\* each listed model the name is kept
getInstalledOllamaModels(reply) ==
    IF modelNames(reply).threw THEN Threw(NotAccessible) ELSE modelNames(reply)

\* ModelUtils.getLoadedOllamaModels, given how its GET /api/ps ended
getLoadedOllamaModels(reply) ==
    IF modelNames(reply).threw THEN Threw(NoLoadedModels) ELSE modelNames(reply)

\* GET /api/tags as the server of the chat path answers it
TagsReply(up, inventory) ==
    IF up THEN Reply("list", inventory) ELSE Reply("refused", << >>)

\* ConfigManager.getAvailableOllamaModels: GET /api/tags; any failure of the
\* call yields the empty list
getAvailableOllamaModels(up, inventory) ==
    availableOllamaModels(TagsReply(up, inventory)).value

\* The loop run over the installed models instead of the priority list
FirstPreferred_InstalledOrder(availableModels) ==
    LET hits == {k \in 1..Len(availableModels) :
                    Includes(codingPriority, availableModels[k])}
        first == CHOOSE k \in hits : \A j \in hits : k <= j
    IN  IF hits = {} THEN 0
        ELSE CHOOSE i \in 1..Len(codingPriority) :
                 codingPriority[i] = availableModels[first]

\* The loop over codingPriority in getSmartDefaultModel: position of the first
\* preferred model that is installed, 0 if none is
FirstPreferred(availableModels) ==
    LET hits == {i \in 1..Len(codingPriority) :
                    Includes(availableModels, codingPriority[i])}
    IN  IF hits = {} THEN 0
        ELSE CHOOSE i \in hits : \A j \in hits : i <= j

\* getSmartDefaultModel without its last resort, availableModels[0]
getSmartDefaultModel_NoLastResort(availableModels) ==
    IF FirstPreferred(availableModels) # 0
    THEN codingPriority[FirstPreferred(availableModels)]
    ELSE FallbackModel

\* getSmartDefaultModel taking the last installed model as its last resort
getSmartDefaultModel_LastListed(availableModels) ==
    IF Len(availableModels) = 0 THEN FallbackModel
    ELSE IF FirstPreferred(availableModels) # 0
         THEN codingPriority[FirstPreferred(availableModels)]
         ELSE availableModels[Len(availableModels)]

\* ConfigManager.getSmartDefaultModel, given what its probe returned
getSmartDefaultModel(availableModels) ==
    IF Len(availableModels) = 0 THEN FallbackModel
    ELSE IF FirstPreferred(availableModels) # 0
         THEN codingPriority[FirstPreferred(availableModels)]
         ELSE availableModels[1]

\* The emptiness test off by one
NoneInstalled_OffByOne(models) == Len(models) <= 1

\* getSmartOllamaModel: availableModels.length === 0, the condition of its throw
NoneInstalled(models) == Len(models) = 0

\* The requested model compared with the first installed model only
RequestedInstalled_FirstOnly(availableModels, requestedModel) ==
    availableModels[1] = requestedModel

\* getSmartOllamaModel: the requested model is taken as it is when the first
\* probe lists it
RequestedInstalled(availableModels, requestedModel) ==
    Includes(availableModels, requestedModel)

\* The notification shown without the comparison
ShowsSwitch_Always(requestedModel, smartDefault) == TRUE

\* getSmartOllamaModel: the condition under which showInformationMessage runs
ShowsSwitch(requestedModel, smartDefault) == requestedModel # smartDefault

\* ChatProvider.handleError: the text shown in the chat for an error message
handleError(errorMessage) ==
    IF Contains(errorMessage, << "ECONNREFUSED" >>)
         \/ Contains(errorMessage, << "not", "running" >>)
    THEN OllamaNotRunning
    ELSE errorMessage

\* The buttons of the dialog handleError opens
ServerActions == << "Download Ollama", "Setup Guide" >>

ModelActions == << "Show Models", "Install Recommended" >>

Classified(kind, message, actions) ==
    [kind |-> kind, message |-> message, actions |-> actions]

\* The two tests of handleError made in the other order
classify_ModelFirst(errorMessage) ==
    IF Contains(errorMessage, << "not", "found" >>)
         \/ Contains(errorMessage, << "does", "not", "exist" >>)
    THEN Classified("ModelNotFound", errorMessage, ModelActions)
    ELSE IF Contains(errorMessage, << "ECONNREFUSED" >>)
              \/ Contains(errorMessage, << "not", "running" >>)
    THEN Classified("ServerUnreachable", OllamaNotRunning, ServerActions)
    ELSE Classified("Unclassified", errorMessage, << >>)

\* ChatProvider.handleError: the branch taken for an error message, the text
\* it shows and the buttons it offers
classify(errorMessage) ==
    IF Contains(errorMessage, << "ECONNREFUSED" >>)
         \/ Contains(errorMessage, << "not", "running" >>)
    THEN Classified("ServerUnreachable", OllamaNotRunning, ServerActions)
    ELSE IF Contains(errorMessage, << "not", "found" >>)
              \/ Contains(errorMessage, << "does", "not", "exist" >>)
    THEN Classified("ModelNotFound", errorMessage, ModelActions)
    ELSE Classified("Unclassified", errorMessage, << >>)

\* `${this.name} API key not configured`, thrown before any request
KeyNotConfigured(name) == << name, "API", "key", "not", "configured" >>

\* A field read from a response body that does not hold it
Undefined == << "undefined" >>

NoEnvelope == << "<no error envelope>" >>

\* How an adapter's POST ends: a 2xx response, whose body holds the completion
\* or lacks it, or a rejection with the transport's code and message and, if a
\* response came, the backend's error envelope.
PostOk(completion) ==
    [ok |-> TRUE, code |-> "", message |-> << >>, envelope |-> NoEnvelope,
     completion |-> completion]

PostFailed(code, message, envelope) ==
    [ok |-> FALSE, code |-> code, message |-> message, envelope |-> envelope,
     completion |-> Undefined]

\* error.response?.data?.error || error.message
ErrorText(post) ==
    IF post.envelope # NoEnvelope THEN post.envelope ELSE post.message

\* OllamaProvider.sendMessage, given how its POST /api/generate ended
OllamaProvider_sendMessage(post) ==
    IF post.ok THEN Returned(post.completion)
    ELSE IF post.code = "ECONNREFUSED" THEN Threw(OllamaNotRunning)
    ELSE Threw(OllamaErrorPrefix \o ErrorText(post))

CannotReadChoices ==
    << "Cannot", "read", "properties", "of", "undefined" >>

\* OpenAIProvider.sendMessage: response.data.choices[0].message.content fails
\* inside try when the body has no choices
OpenAIProvider_sendMessage(hasKey, post) ==
    IF ~hasKey THEN Threw(KeyNotConfigured("openai"))
    ELSE IF post.ok /\ post.completion # Undefined THEN Returned(post.completion)
    ELSE IF post.ok THEN Threw(HostedErrorPrefix("openai") \o CannotReadChoices)
    ELSE Threw(HostedErrorPrefix("openai") \o ErrorText(post))

HuggingFaceErrorPrefix == << "HuggingFace", "error", ":" >>

NoResponse == << "No", "response" >>

\* HuggingFaceProvider.sendMessage:
\* response.data[0]?.generated_text || response.data.generated_text || 'No response'
HuggingFaceProvider_sendMessage(hasKey, post) ==
    IF ~hasKey THEN Threw(KeyNotConfigured("huggingface"))
    ELSE IF post.ok /\ post.completion # Undefined THEN Returned(post.completion)
    ELSE IF post.ok THEN Returned(NoResponse)
    ELSE Threw(HuggingFaceErrorPrefix \o ErrorText(post))

\* -------------------------------------------------------------------------
\* Selecting a provider, automatic setup
\* -------------------------------------------------------------------------

\* AIProvider.models of the hosted adapters that are offered for selection
providerModels(name) ==
    IF name = "openai"
    THEN {"gpt-4-turbo-preview", "gpt-4-turbo", "gpt-4", "gpt-4o", "gpt-4o-mini",
          "o1-preview", "o1-mini"}
    ELSE IF name = "groq"
    THEN {"llama-3.3-70b-versatile", "llama-3.1-70b-versatile",
          "llama-3.1-8b-instant", "mixtral-8x7b-32768", "gemma2-9b-it"}
    ELSE {}

\* vajra.selectProvider: the model it stores for a hosted provider
commandDefaultModel(name) ==
    IF name = "openai" THEN "gpt-4-turbo"
    ELSE IF name = "groq" THEN "llama-3.1-8b-instant"
    ELSE NoModel

\* autoSetup going on whatever the stored provider is
autoSetupApplies_Always(currentProvider) == TRUE

\* autoSetup: it returns at once unless the stored provider is ollama or groq
autoSetupApplies(currentProvider) ==
    currentProvider = "ollama" \/ currentProvider = "groq"

\* -------------------------------------------------------------------------
\* State
\* -------------------------------------------------------------------------

VARIABLES
    defaultProvider,   \* configuration: vajra.defaultProvider
    defaultModel,      \* configuration: vajra.defaultModel
    apiKeys,           \* configuration: the backends whose key is set
    serverUp,          \* the self-hosted server answers requests
    installed,         \* its models, in the order GET /api/tags lists them
    pc,                \* where each handleMessage call stands
    config,            \* handleMessage: const config
    availableModels,   \* getSmartOllamaModel: const availableModels
    smartAvailable,    \* getSmartDefaultModel: const availableModels
    smartDefault,      \* getSmartOllamaModel: const smartDefault
    modelToUse,        \* handleMessage: let modelToUse
    messages,          \* ChatProvider.messages
    notifications,     \* showInformationMessage calls of getSmartOllamaModel
    requests,          \* sendMessage calls made, per prompt
    keyPrompts,        \* configureProvider calls made, per prompt
    call,              \* the function last called on its own, with its input
    outcome,           \* what that call returned or threw
    selection,         \* a provider selection: where it stands, its locals
    setup              \* ConfigManager.autoSetup: where it stands, its locals

vars ==
    << defaultProvider, defaultModel, apiKeys, serverUp, installed, pc, config,
       availableModels, smartAvailable, smartDefault, modelToUse, messages,
       notifications, requests, keyPrompts, call, outcome, selection, setup >>

callVars == << call, outcome >>
procVars == << selection, setup >>
cfgVars == << defaultProvider, defaultModel, apiKeys >>
serverVars == << serverUp, installed >>
resolverVars == << availableModels, smartAvailable, smartDefault >>

NoCall == [op |-> "none"]

NoSelection ==
    [pc |-> "idle", via |-> "none", provider |-> NoModel, model |-> NoModel]

\* autoSetup not running
NoSetup ==
    [pc |-> "done", currentProvider |-> NoModel, currentModel |-> NoModel,
     smartModel |-> NoModel]

NoConfig == [defaultProvider |-> NoModel, defaultModel |-> NoModel]

\* Stored default providers: the self-hosted one, a credential-bearing one and
\* an identifier no adapter is registered under.
StoredProviders == {"ollama", "openai", "legacy"}

Init ==
    /\ defaultProvider \in StoredProviders
    /\ defaultModel \in IF defaultProvider = "ollama" THEN OllamaDefaults
                        ELSE {HostedModel}
    /\ apiKeys \in IF defaultProvider = "openai" THEN SUBSET {"openai"} ELSE {{}}
    /\ serverUp \in BOOLEAN
    /\ installed \in Inventories
    /\ pc = [p \in Prompts |-> "idle"]
    /\ config = [p \in Prompts |-> NoConfig]
    /\ availableModels = [p \in Prompts |-> << >>]
    /\ smartAvailable = [p \in Prompts |-> << >>]
    /\ smartDefault = [p \in Prompts |-> NoModel]
    /\ modelToUse = [p \in Prompts |-> NoModel]
    /\ messages = << >>
    /\ notifications = [p \in Prompts |-> << >>]
    /\ requests = [p \in Prompts |-> << >>]
    /\ keyPrompts = [p \in Prompts |-> 0]
    /\ call = NoCall
    /\ outcome = NoCall
    /\ selection = NoSelection
    /\ setup = NoSetup

\* A continuation that is already scheduled (the caller of an async function
\* that has returned) runs before any I/O completion or user event.
Resuming == \E p \in DOMAIN pc : pc[p] = "resolved"

userMessage(p) ==
    [role |-> "user", content |-> << "question" >>, provider |-> NoModel,
     model |-> NoModel, prompt |-> p]

assistantMessage(p, response, provider, model) ==
    [role |-> "assistant", content |-> response, provider |-> provider,
     model |-> model, prompt |-> p]

\* handleError: the chat message it appends
errorChatMessage(p, errorMessage) ==
    [role |-> "assistant", content |-> << "Error", ":" >> \o handleError(errorMessage),
     provider |-> NoModel, model |-> NoModel, prompt |-> p]

\* AIProvider.sendMessage up to its await: the request it issues
Request(provider, model) == [provider |-> provider, model |-> model]

\* -------------------------------------------------------------------------
\* ChatProvider.handleMessage
\* -------------------------------------------------------------------------

\* The failure path of handleMessage: catch (error) { await handleError(error) }
\* handleError writing its message over the last turn of the log
Fail_Overwrite(p, log, errorMessage) ==
    /\ messages' = Append(SubSeq(log, 1, Len(log) - 1),
                          errorChatMessage(p, errorMessage))
    /\ pc' = [pc EXCEPT ![p] = "done"]

Fail(p, log, errorMessage) ==
    /\ messages' = Append(log, errorChatMessage(p, errorMessage))
    /\ pc' = [pc EXCEPT ![p] = "done"]

\* A prompt held back until the prompt before it is answered
HandleMessage_Exclusive(p) ==
    /\ ~Resuming
    /\ pc[p] = "idle"
    /\ \A q \in DOMAIN pc : pc[q] \in {"idle", "done"}
    /\ \A q \in DOMAIN pc : q < p => pc[q] # "idle"
    /\ LET log == Append(messages, userMessage(p))
           cfg == [defaultProvider |-> defaultProvider, defaultModel |-> defaultModel]
           provider == getProvider(cfg.defaultProvider)
       IN  /\ config' = [config EXCEPT ![p] = cfg]
           /\ \/ /\ provider = NoModel
                 /\ Fail(p, log, ProviderNotFound(cfg.defaultProvider))
                 /\ UNCHANGED << modelToUse, requests, keyPrompts >>
              \/ /\ provider # NoModel
                 /\ ~isConfigured(provider, apiKeys)
                 /\ messages' = log
                 /\ keyPrompts' = [keyPrompts EXCEPT ![p] = @ + 1]
                 /\ pc' = [pc EXCEPT ![p] = "configure"]
                 /\ UNCHANGED << modelToUse, requests >>
              \/ /\ provider # NoModel
                 /\ isConfigured(provider, apiKeys)
                 /\ cfg.defaultProvider = "ollama"
                 /\ messages' = log
                 /\ pc' = [pc EXCEPT ![p] = "probe1"]
                 /\ UNCHANGED << modelToUse, requests, keyPrompts >>
              \/ /\ provider # NoModel
                 /\ isConfigured(provider, apiKeys)
                 /\ cfg.defaultProvider # "ollama"
                 /\ messages' = log
                 /\ modelToUse' = [modelToUse EXCEPT ![p] = cfg.defaultModel]
                 /\ requests' = [requests EXCEPT
                                   ![p] = Append(@, Request(provider, cfg.defaultModel))]
                 /\ pc' = [pc EXCEPT ![p] = "send"]
                 /\ UNCHANGED keyPrompts
    /\ UNCHANGED << cfgVars, serverVars, resolverVars, notifications >>
    /\ UNCHANGED << callVars, procVars >>

\* From the user's prompt to the first await.  Prompts are numbered in the
\* order they are submitted.
HandleMessage(p) ==
    /\ ~Resuming
    /\ pc[p] = "idle"
    /\ \A q \in DOMAIN pc : q < p => pc[q] # "idle"
    /\ LET log == Append(messages, userMessage(p))
           cfg == [defaultProvider |-> defaultProvider, defaultModel |-> defaultModel]
           provider == getProvider(cfg.defaultProvider)
       IN  /\ config' = [config EXCEPT ![p] = cfg]
           /\ \/ /\ provider = NoModel
                 /\ Fail(p, log, ProviderNotFound(cfg.defaultProvider))
                 /\ UNCHANGED << modelToUse, requests, keyPrompts >>
              \/ /\ provider # NoModel
                 /\ ~isConfigured(provider, apiKeys)
                 /\ messages' = log
                 /\ keyPrompts' = [keyPrompts EXCEPT ![p] = @ + 1]
                 /\ pc' = [pc EXCEPT ![p] = "configure"]
                 /\ UNCHANGED << modelToUse, requests >>
              \/ /\ provider # NoModel
                 /\ isConfigured(provider, apiKeys)
                 /\ cfg.defaultProvider = "ollama"
                 /\ messages' = log
                 /\ pc' = [pc EXCEPT ![p] = "probe1"]
                 /\ UNCHANGED << modelToUse, requests, keyPrompts >>
              \/ /\ provider # NoModel
                 /\ isConfigured(provider, apiKeys)
                 /\ cfg.defaultProvider # "ollama"
                 /\ messages' = log
                 /\ modelToUse' = [modelToUse EXCEPT ![p] = cfg.defaultModel]
                 /\ requests' = [requests EXCEPT
                                   ![p] = Append(@, Request(provider, cfg.defaultModel))]
                 /\ pc' = [pc EXCEPT ![p] = "send"]
                 /\ UNCHANGED keyPrompts
    /\ UNCHANGED << cfgVars, serverVars, resolverVars, notifications >>
    /\ UNCHANGED << callVars, procVars >>

\* configureProvider -> ConfigManager.promptForApiKey: the input box closes,
\* with a key or without one; handleMessage then returns.
ConfigureProviderReturns(p) ==
    /\ ~Resuming
    /\ pc[p] = "configure"
    /\ \E entered \in BOOLEAN :
          apiKeys' = IF entered /\ config[p].defaultProvider \in apiKeyProviders
                     THEN apiKeys \cup {config[p].defaultProvider}
                     ELSE apiKeys
    /\ pc' = [pc EXCEPT ![p] = "done"]
    /\ UNCHANGED << defaultProvider, defaultModel, serverVars, config, resolverVars,
                    modelToUse, messages, notifications, requests, keyPrompts >>
    /\ UNCHANGED << callVars, procVars >>

\* The resolver answering from what the prompt before was resolved to
FirstProbeReturns_Cached(p) ==
    /\ ~Resuming
    /\ pc[p] = "probe1"
    /\ LET models == IF p > 1 /\ modelToUse[p - 1] # NoModel
                     THEN << modelToUse[p - 1] >>
                     ELSE getAvailableOllamaModels(serverUp, installed)
           requestedModel == config[p].defaultModel
       IN  /\ availableModels' = [availableModels EXCEPT ![p] = models]
           /\ IF NoneInstalled(models)
              THEN /\ Fail(p, messages, OllamaErrorPrefix \o NoModelsInstalled)
                   /\ UNCHANGED modelToUse
              ELSE IF RequestedInstalled(models, requestedModel)
              THEN /\ modelToUse' = [modelToUse EXCEPT ![p] = requestedModel]
                   /\ pc' = [pc EXCEPT ![p] = "resolved"]
                   /\ UNCHANGED messages
              ELSE /\ pc' = [pc EXCEPT ![p] = "probe2"]
                   /\ UNCHANGED << modelToUse, messages >>
    /\ UNCHANGED << cfgVars, serverVars, config, smartAvailable, smartDefault,
                    notifications, requests, keyPrompts >>
    /\ UNCHANGED << callVars, procVars >>

\* The resolver asking for the model the prompt before was resolved to
FirstProbeReturns_Sticky(p) ==
    /\ ~Resuming
    /\ pc[p] = "probe1"
    /\ LET models == getAvailableOllamaModels(serverUp, installed)
           requestedModel == IF p > 1 /\ modelToUse[p - 1] # NoModel
                             THEN modelToUse[p - 1]
                             ELSE config[p].defaultModel
       IN  /\ availableModels' = [availableModels EXCEPT ![p] = models]
           /\ IF NoneInstalled(models)
              THEN /\ Fail(p, messages, OllamaErrorPrefix \o NoModelsInstalled)
                   /\ UNCHANGED modelToUse
              ELSE IF RequestedInstalled(models, requestedModel)
              THEN /\ modelToUse' = [modelToUse EXCEPT ![p] = requestedModel]
                   /\ pc' = [pc EXCEPT ![p] = "resolved"]
                   /\ UNCHANGED messages
              ELSE /\ pc' = [pc EXCEPT ![p] = "probe2"]
                   /\ UNCHANGED << modelToUse, messages >>
    /\ UNCHANGED << cfgVars, serverVars, config, smartAvailable, smartDefault,
                    notifications, requests, keyPrompts >>
    /\ UNCHANGED << callVars, procVars >>

\* getSmartOllamaModel: the first probe answers.
FirstProbeReturns(p) ==
    /\ ~Resuming
    /\ pc[p] = "probe1"
    /\ LET models == getAvailableOllamaModels(serverUp, installed)
           requestedModel == config[p].defaultModel
       IN  /\ availableModels' = [availableModels EXCEPT ![p] = models]
           /\ IF NoneInstalled(models)
              THEN /\ Fail(p, messages, OllamaErrorPrefix \o NoModelsInstalled)
                   /\ UNCHANGED modelToUse
              ELSE IF RequestedInstalled(models, requestedModel)
              THEN /\ modelToUse' = [modelToUse EXCEPT ![p] = requestedModel]
                   /\ pc' = [pc EXCEPT ![p] = "resolved"]
                   /\ UNCHANGED messages
              ELSE /\ pc' = [pc EXCEPT ![p] = "probe2"]
                   /\ UNCHANGED << modelToUse, messages >>
    /\ UNCHANGED << cfgVars, serverVars, config, smartAvailable, smartDefault,
                    notifications, requests, keyPrompts >>
    /\ UNCHANGED << callVars, procVars >>

\* The resolver storing the model it switched to as the default model
SecondProbeReturns_Persist(p) ==
    /\ ~Resuming
    /\ pc[p] = "probe2"
    /\ LET models == getAvailableOllamaModels(serverUp, installed)
           requestedModel == config[p].defaultModel
           chosen == getSmartDefaultModel(models)
       IN  /\ smartAvailable' = [smartAvailable EXCEPT ![p] = models]
           /\ smartDefault' = [smartDefault EXCEPT ![p] = chosen]
           /\ notifications' =
                 IF ShowsSwitch(requestedModel, chosen)
                 THEN [notifications EXCEPT
                         ![p] = Append(@, [requested |-> requestedModel,
                                           resolved |-> chosen])]
                 ELSE notifications
           /\ modelToUse' = [modelToUse EXCEPT ![p] = chosen]
           /\ defaultModel' = chosen
    /\ pc' = [pc EXCEPT ![p] = "resolved"]
    /\ UNCHANGED << defaultProvider, apiKeys, serverVars, config, availableModels, messages,
                    requests, keyPrompts >>
    /\ UNCHANGED << callVars, procVars >>

\* getSmartOllamaModel: the probe made inside getSmartDefaultModel answers.
SecondProbeReturns(p) ==
    /\ ~Resuming
    /\ pc[p] = "probe2"
    /\ LET models == getAvailableOllamaModels(serverUp, installed)
           requestedModel == config[p].defaultModel
           chosen == getSmartDefaultModel(models)
       IN  /\ smartAvailable' = [smartAvailable EXCEPT ![p] = models]
           /\ smartDefault' = [smartDefault EXCEPT ![p] = chosen]
           /\ notifications' =
                 IF ShowsSwitch(requestedModel, chosen)
                 THEN [notifications EXCEPT
                         ![p] = Append(@, [requested |-> requestedModel,
                                           resolved |-> chosen])]
                 ELSE notifications
           /\ modelToUse' = [modelToUse EXCEPT ![p] = chosen]
    /\ pc' = [pc EXCEPT ![p] = "resolved"]
    /\ UNCHANGED << cfgVars, serverVars, config, availableModels, messages,
                    requests, keyPrompts >>
    /\ UNCHANGED << callVars, procVars >>

\* handleMessage passing config.defaultModel to sendMessage, as it did before
\* the resolver existed
SendResolved_StoredModel(p) ==
    /\ pc[p] = "resolved"
    /\ requests' = [requests EXCEPT
                      ![p] = Append(@, Request(getProvider(config[p].defaultProvider),
                                               config[p].defaultModel))]
    /\ availableModels' = [availableModels EXCEPT ![p] = << >>]
    /\ smartAvailable' = [smartAvailable EXCEPT ![p] = << >>]
    /\ smartDefault' = [smartDefault EXCEPT ![p] = NoModel]
    /\ pc' = [pc EXCEPT ![p] = "send"]
    /\ UNCHANGED << cfgVars, serverVars, config, modelToUse, messages,
                    notifications, keyPrompts >>
    /\ UNCHANGED << callVars, procVars >>

\* handleMessage resumes with the resolver's result and calls sendMessage.
SendResolved(p) ==
    /\ pc[p] = "resolved"
    /\ requests' = [requests EXCEPT
                      ![p] = Append(@, Request(getProvider(config[p].defaultProvider),
                                               modelToUse[p]))]
    /\ availableModels' = [availableModels EXCEPT ![p] = << >>]
    /\ smartAvailable' = [smartAvailable EXCEPT ![p] = << >>]
    /\ smartDefault' = [smartDefault EXCEPT ![p] = NoModel]
    /\ pc' = [pc EXCEPT ![p] = "send"]
    /\ UNCHANGED << cfgVars, serverVars, config, modelToUse, messages,
                    notifications, keyPrompts >>
    /\ UNCHANGED << callVars, procVars >>

\* OllamaProvider.sendMessage: what POST /api/generate ends with
OllamaSendResult(up, inventory, model) ==
    IF ~up THEN [ok |-> FALSE, text |-> OllamaNotRunning]
    ELSE IF ~Includes(inventory, model)
    THEN [ok |-> FALSE, text |-> OllamaErrorPrefix \o OllamaModelMissing(model)]
    ELSE [ok |-> TRUE, text |-> ResponseText]

\* A hosted adapter's sendMessage: what its POST ends with
HostedSendResults(name) ==
    {[ok |-> TRUE, text |-> ResponseText]} \cup
    {[ok |-> FALSE, text |-> HostedErrorPrefix(name) \o f] : f \in HostedFailures}

\* handleMessage calling sendMessage again after a failure
SendMessageReturns_Retry(p) ==
    /\ ~Resuming
    /\ pc[p] = "send"
    /\ LET provider == getProvider(config[p].defaultProvider)
       IN \E result \in IF provider = "ollama"
                        THEN {OllamaSendResult(serverUp, installed, modelToUse[p])}
                        ELSE HostedSendResults(provider) :
             IF result.ok
             THEN /\ messages' = Append(messages,
                        assistantMessage(p, result.text, provider, modelToUse[p]))
                  /\ pc' = [pc EXCEPT ![p] = "done"]
                  /\ UNCHANGED requests
             ELSE IF Len(requests[p]) < 2
             THEN /\ requests' = [requests EXCEPT
                                    ![p] = Append(@, Request(provider, modelToUse[p]))]
                  /\ UNCHANGED << messages, pc >>
             ELSE /\ Fail(p, messages, result.text)
                  /\ UNCHANGED requests
    /\ UNCHANGED << cfgVars, serverVars, config, resolverVars, modelToUse,
                    notifications, keyPrompts >>
    /\ UNCHANGED << callVars, procVars >>

\* provider.sendMessage settles; handleMessage appends the reply.
SendMessageReturns(p) ==
    /\ ~Resuming
    /\ pc[p] = "send"
    /\ LET provider == getProvider(config[p].defaultProvider)
       IN \E result \in IF provider = "ollama"
                        THEN {OllamaSendResult(serverUp, installed, modelToUse[p])}
                        ELSE HostedSendResults(provider) :
             IF result.ok
             THEN /\ messages' = Append(messages,
                        assistantMessage(p, result.text, provider, modelToUse[p]))
                  /\ pc' = [pc EXCEPT ![p] = "done"]
             ELSE Fail(p, messages, result.text)
    /\ UNCHANGED << cfgVars, serverVars, config, resolverVars, modelToUse,
                    notifications, requests, keyPrompts >>
    /\ UNCHANGED << callVars, procVars >>

\* -------------------------------------------------------------------------
\* The self-hosted server, changed from outside
\* -------------------------------------------------------------------------

ServerStarts ==
    /\ ~Resuming /\ ~serverUp
    /\ serverUp' = TRUE
    /\ UNCHANGED << cfgVars, installed, pc, config, resolverVars, modelToUse,
                    messages, notifications, requests, keyPrompts >>
    /\ UNCHANGED << callVars, procVars >>

ServerStops ==
    /\ ~Resuming /\ serverUp
    /\ serverUp' = FALSE
    /\ UNCHANGED << cfgVars, installed, pc, config, resolverVars, modelToUse,
                    messages, notifications, requests, keyPrompts >>
    /\ UNCHANGED << callVars, procVars >>

\* ollama pull: a model appears somewhere in the list
ModelPulled ==
    /\ ~Resuming
    /\ Len(installed) < MaxInstalled
    /\ \E m \in Installable \ Range(installed), i \in 1..(Len(installed) + 1) :
          installed' = [k \in 1..(Len(installed) + 1) |->
                           IF k < i THEN installed[k]
                           ELSE IF k = i THEN m ELSE installed[k - 1]]
    /\ UNCHANGED << cfgVars, serverUp, pc, config, resolverVars, modelToUse,
                    messages, notifications, requests, keyPrompts >>
    /\ UNCHANGED << callVars, procVars >>

\* ollama rm: a model leaves the list
ModelRemoved ==
    /\ ~Resuming
    /\ \E i \in 1..Len(installed) :
          installed' = [k \in 1..(Len(installed) - 1) |->
                           IF k < i THEN installed[k] ELSE installed[k + 1]]
    /\ UNCHANGED << cfgVars, serverUp, pc, config, resolverVars, modelToUse,
                    messages, notifications, requests, keyPrompts >>
    /\ UNCHANGED << callVars, procVars >>

Next ==
    \/ \E p \in Prompts : HandleMessage(p)
    \/ \E p \in Prompts : ConfigureProviderReturns(p)
    \/ \E p \in Prompts : FirstProbeReturns(p)
    \/ \E p \in Prompts : SecondProbeReturns(p)
    \/ \E p \in Prompts : SendResolved(p)
    \/ \E p \in Prompts : SendMessageReturns(p)
    \/ ServerStarts
    \/ ServerStops
    \/ ModelPulled
    \/ ModelRemoved

Spec == Init /\ [][Next]_vars

\* -------------------------------------------------------------------------
\* Functions called on their own: probes, classifier, adapters, registry,
\* hardware advisor
\* -------------------------------------------------------------------------

chatVars ==
    << defaultProvider, defaultModel, apiKeys, serverUp, installed, pc, config,
       availableModels, smartAvailable, smartDefault, modelToUse, messages,
       notifications, requests, keyPrompts, selection, setup >>

ServerReplies == {Reply(kind, IF kind = "list" THEN models ELSE << >>) :
                     kind \in ReplyKinds, models \in Inventories}

CallProbe ==
    /\ \E reply \in ServerReplies :
          \/ /\ call' = [op |-> "getAvailableOllamaModels", input |-> reply]
             /\ outcome' = availableOllamaModels(reply)
          \/ /\ call' = [op |-> "getInstalledOllamaModels", input |-> reply]
             /\ outcome' = getInstalledOllamaModels(reply)
          \/ /\ call' = [op |-> "getLoadedOllamaModels", input |-> reply]
             /\ outcome' = getLoadedOllamaModels(reply)
    /\ UNCHANGED chatVars

\* Messages of the errors that reach handleError
ErrorTexts ==
    { TransportMessage(kind) : kind \in FailedReplyKinds } \cup
    { HostedErrorPrefix("openai") \o f : f \in HostedFailures } \cup
    { OllamaErrorPrefix \o OllamaModelMissing(m) : m \in OllamaDefaults } \cup
    { OllamaNotRunning,
      NotAccessible,
      OllamaErrorPrefix \o NoModelsInstalled,
      ProviderNotFound("legacy"),
      KeyNotConfigured("openai"),
      << "Request", "failed", "with", "status", "code", "401" >>,
      << "The", "model", "does", "not", "exist" >>,
      << "connect", "ECONNREFUSED", "model", "not", "found" >>,
      << "model", "not", "found", "server", "not", "running" >> }

CallHandleError ==
    /\ \E errorMessage \in ErrorTexts :
          /\ call' = [op |-> "handleError", input |-> errorMessage]
          /\ outcome' = classify(errorMessage)
    /\ UNCHANGED chatVars

PostReplies ==
    { PostOk(ResponseText), PostOk(Undefined),
      PostFailed("ECONNREFUSED", TransportMessage("refused"), NoEnvelope),
      PostFailed("ECONNABORTED", TransportMessage("timeout"), NoEnvelope),
      PostFailed("ERR_BAD_RESPONSE", TransportMessage("status"), NoEnvelope),
      PostFailed("ERR_BAD_REQUEST", TransportMessage("status"),
                 OllamaModelMissing("nonexistent:1b")) }

CallSendMessage ==
    /\ \E post \in PostReplies, hasKey \in BOOLEAN :
          \/ /\ hasKey
             /\ call' = [op |-> "sendMessage", adapter |-> "ollama",
                         hasKey |-> hasKey, input |-> post]
             /\ outcome' = OllamaProvider_sendMessage(post)
          \/ /\ call' = [op |-> "sendMessage", adapter |-> "openai",
                         hasKey |-> hasKey, input |-> post]
             /\ outcome' = OpenAIProvider_sendMessage(hasKey, post)
          \/ /\ call' = [op |-> "sendMessage", adapter |-> "huggingface",
                         hasKey |-> hasKey, input |-> post]
             /\ outcome' = HuggingFaceProvider_sendMessage(hasKey, post)
    /\ UNCHANGED chatVars

\* Identifiers a caller may look up: the registered ones and two others
LookupIds == Range(ProviderNames) \cup {"legacy", "Ollama"}

CallRegistry ==
    /\ \/ /\ call' = [op |-> "getAllProviders"]
          /\ outcome' = getAllProviders
       \/ \E keys \in SUBSET apiKeyProviders :
             /\ call' = [op |-> "getConfiguredProviders", keys |-> keys]
             /\ outcome' = getConfiguredProviders(keys)
       \/ \E id \in LookupIds :
             /\ call' = [op |-> "getProvider", id |-> id]
             /\ outcome' = getProvider(id)
    /\ UNCHANGED chatVars

CallGetModelForHardware ==
    /\ \E memoryGB \in 0..MaxMemoryGB, accelerator \in BOOLEAN :
          /\ call' = [op |-> "getModelForHardware", ramGB |-> memoryGB,
                      hasGPU |-> accelerator]
          /\ outcome' = getModelForHardware(memoryGB, accelerator)
    /\ UNCHANGED chatVars

CallGetSystemRecommendations ==
    /\ call' = [op |-> "getSystemRecommendations"]
    /\ outcome' = getSystemRecommendations
    /\ UNCHANGED chatVars

InitCalls ==
    /\ Init
    /\ defaultProvider = "ollama"
    /\ defaultModel = FallbackModel
    /\ ~serverUp
    /\ installed = << >>

NextCalls ==
    \/ CallProbe
    \/ CallHandleError
    \/ CallSendMessage
    \/ CallRegistry
    \/ CallGetModelForHardware
    \/ CallGetSystemRecommendations

SpecCalls == InitCalls /\ [][NextCalls]_vars

\* -------------------------------------------------------------------------
\* The chat while the self-hosted server stays unreachable
\* -------------------------------------------------------------------------

InitOffline == Init /\ ~serverUp

NextOffline ==
    \/ \E p \in Prompts : HandleMessage(p)
    \/ \E p \in Prompts : ConfigureProviderReturns(p)
    \/ \E p \in Prompts : FirstProbeReturns(p)
    \/ \E p \in Prompts : SendMessageReturns(p)

SpecOffline == InitOffline /\ [][NextOffline]_vars

\* -------------------------------------------------------------------------
\* A session in which one more prompt is submitted: nothing in
\* onDidReceiveMessage holds a prompt back while another is being handled
\* -------------------------------------------------------------------------

Session == 1..(MaxPrompts + 1)

InitSession ==
    /\ defaultProvider \in StoredProviders
    /\ defaultModel \in IF defaultProvider = "ollama" THEN OllamaDefaults
                        ELSE {HostedModel}
    /\ apiKeys \in IF defaultProvider = "openai" THEN SUBSET {"openai"} ELSE {{}}
    /\ serverUp \in BOOLEAN
    /\ installed \in Inventories
    /\ pc = [p \in Session |-> "idle"]
    /\ config = [p \in Session |-> NoConfig]
    /\ availableModels = [p \in Session |-> << >>]
    /\ smartAvailable = [p \in Session |-> << >>]
    /\ smartDefault = [p \in Session |-> NoModel]
    /\ modelToUse = [p \in Session |-> NoModel]
    /\ messages = << >>
    /\ notifications = [p \in Session |-> << >>]
    /\ requests = [p \in Session |-> << >>]
    /\ keyPrompts = [p \in Session |-> 0]
    /\ call = NoCall
    /\ outcome = NoCall
    /\ selection = NoSelection
    /\ setup = NoSetup

NextSession ==
    \/ \E p \in Session : HandleMessage(p)
    \/ \E p \in Session : ConfigureProviderReturns(p)
    \/ \E p \in Session : FirstProbeReturns(p)
    \/ \E p \in Session : SecondProbeReturns(p)
    \/ \E p \in Session : SendResolved(p)
    \/ \E p \in Session : SendMessageReturns(p)

SpecSession == InitSession /\ [][NextSession]_vars

\* The same session with a running server whose models come and go
\* The models pulled and removed while the session runs
Pulled == {"llama2:latest", "qwen2.5-coder:7b"}

InitInventory ==
    /\ InitSession
    /\ defaultProvider = "ollama"
    /\ serverUp
    /\ Range(installed) \subseteq Pulled

NextInventory ==
    \/ \E p \in Session : HandleMessage(p)
    \/ \E p \in Session : FirstProbeReturns(p)
    \/ \E p \in Session : SecondProbeReturns(p)
    \/ \E p \in Session : SendResolved(p)
    \/ \E p \in Session : SendMessageReturns(p)
    \/ ModelPulled /\ Range(installed') \subseteq Pulled
    \/ ModelRemoved

SpecInventory == InitInventory /\ [][NextInventory]_vars

\* -------------------------------------------------------------------------
\* Provider selection (the command and the chat panel's button) and autoSetup
\* -------------------------------------------------------------------------

promptVars ==
    << pc, config, availableModels, smartAvailable, smartDefault, modelToUse,
       messages, notifications, requests, keyPrompts >>

\* The providers picked in the quick pick: the self-hosted one and two hosted
SelectableProviders == {"ollama", "openai", "groq"}

\* The user picks a provider.  The command sets up a provider that is not
\* configured first; otherwise defaultProvider is updated.
SelectionPicked ==
    /\ ~Resuming
    /\ selection.pc = "idle"
    /\ \E via \in {"command", "panel"}, name \in SelectableProviders :
          IF via = "command" /\ ~isConfigured(name, apiKeys)
          THEN /\ selection' = [pc |-> "setup", via |-> via, provider |-> name,
                                model |-> NoModel]
               /\ UNCHANGED defaultProvider
          ELSE /\ selection' = [pc |-> "providerWritten", via |-> via,
                                provider |-> name, model |-> NoModel]
               /\ defaultProvider' = name
    /\ UNCHANGED << defaultModel, apiKeys, serverVars, promptVars, callVars, setup >>

\* setupProvider returns: with a key entered, defaultProvider is updated;
\* cancelled, the command returns.
SetupProviderReturns ==
    /\ ~Resuming
    /\ selection.pc = "setup"
    /\ \E setupSuccess \in BOOLEAN :
          IF setupSuccess
          THEN /\ apiKeys' = apiKeys \cup {selection.provider}
               /\ defaultProvider' = selection.provider
               /\ selection' = [selection EXCEPT !.pc = "providerWritten"]
          ELSE /\ selection' = [selection EXCEPT !.pc = "cancelled"]
               /\ UNCHANGED << apiKeys, defaultProvider >>
    /\ UNCHANGED << defaultModel, serverVars, promptVars, callVars, setup >>

\* The update of defaultProvider has completed: for ollama
\* getSmartDefaultModel is called; for a hosted provider the command updates
\* defaultModel, the panel stops.
SelectionContinues ==
    /\ ~Resuming
    /\ selection.pc = "providerWritten"
    /\ IF selection.provider = "ollama"
       THEN /\ selection' = [selection EXCEPT !.pc = "probe"]
            /\ UNCHANGED defaultModel
       ELSE IF selection.via = "command"
       THEN /\ defaultModel' = commandDefaultModel(selection.provider)
            /\ selection' = [selection EXCEPT
                                !.pc = "done",
                                !.model = commandDefaultModel(selection.provider)]
       ELSE /\ selection' = [selection EXCEPT !.pc = "done"]
            /\ UNCHANGED defaultModel
    /\ UNCHANGED << defaultProvider, apiKeys, serverVars, promptVars, callVars,
                    setup >>

\* The probe of getSmartDefaultModel answers; defaultModel is updated with
\* the model it returns.
SelectionProbeReturns ==
    /\ ~Resuming
    /\ selection.pc = "probe"
    /\ LET smartModel ==
               getSmartDefaultModel(getAvailableOllamaModels(serverUp, installed))
       IN  /\ defaultModel' = smartModel
           /\ selection' = [selection EXCEPT !.pc = "done", !.model = smartModel]
    /\ UNCHANGED << defaultProvider, apiKeys, serverVars, promptVars, callVars,
                    setup >>

\* autoSetup: its own probe answers; with no model listed it returns.
AutoSetupFirstProbeReturns ==
    /\ ~Resuming
    /\ setup.pc = "probe1"
    /\ setup' = [setup EXCEPT
                   !.pc = IF Len(getAvailableOllamaModels(serverUp, installed)) > 0
                          THEN "probe2" ELSE "done"]
    /\ UNCHANGED << cfgVars, serverVars, promptVars, callVars, selection >>

\* autoSetup: the probe of getSmartDefaultModel answers; defaultProvider is
\* updated to ollama.
AutoSetupSecondProbeReturns ==
    /\ ~Resuming
    /\ setup.pc = "probe2"
    /\ setup' = [setup EXCEPT
                   !.pc = "providerWritten",
                   !.smartModel = getSmartDefaultModel(
                                      getAvailableOllamaModels(serverUp, installed))]
    /\ defaultProvider' = "ollama"
    /\ UNCHANGED << defaultModel, apiKeys, serverVars, promptVars, callVars,
                    selection >>

\* autoSetup: the update of defaultProvider has completed; defaultModel is
\* updated.
AutoSetupWritesModel ==
    /\ ~Resuming
    /\ setup.pc = "providerWritten"
    /\ defaultModel' = setup.smartModel
    /\ setup' = [setup EXCEPT !.pc = "done"]
    /\ UNCHANGED << defaultProvider, apiKeys, serverVars, promptVars, callVars,
                    selection >>

\* The stored provider with its model, as a selection or the defaults left it
StoredPairs ==
    {[defaultProvider |-> "ollama", defaultModel |-> m] : m \in OllamaDefaults}
    \cup {[defaultProvider |-> name, defaultModel |-> commandDefaultModel(name)] :
              name \in SelectableProviders \ {"ollama"}}

\* After activate: autoSetup has run up to its first await.
InitConfig ==
    /\ \E stored \in StoredPairs :
          /\ defaultProvider = stored.defaultProvider
          /\ defaultModel = stored.defaultModel
    /\ apiKeys \in {{}, SelectableProviders \ {"ollama"}}
    /\ serverUp \in BOOLEAN
    /\ installed \in Inventories
    /\ pc = [p \in Prompts |-> "idle"]
    /\ config = [p \in Prompts |-> NoConfig]
    /\ availableModels = [p \in Prompts |-> << >>]
    /\ smartAvailable = [p \in Prompts |-> << >>]
    /\ smartDefault = [p \in Prompts |-> NoModel]
    /\ modelToUse = [p \in Prompts |-> NoModel]
    /\ messages = << >>
    /\ notifications = [p \in Prompts |-> << >>]
    /\ requests = [p \in Prompts |-> << >>]
    /\ keyPrompts = [p \in Prompts |-> 0]
    /\ call = NoCall
    /\ outcome = NoCall
    /\ selection = NoSelection
    /\ setup = [pc |-> IF autoSetupApplies(defaultProvider) THEN "probe1" ELSE "done",
                currentProvider |-> defaultProvider,
                currentModel |-> defaultModel,
                smartModel |-> NoModel]

NextConfig ==
    \/ SelectionPicked
    \/ SetupProviderReturns
    \/ SelectionContinues
    \/ SelectionProbeReturns
    \/ AutoSetupFirstProbeReturns
    \/ AutoSetupSecondProbeReturns
    \/ AutoSetupWritesModel

SpecConfig == InitConfig /\ [][NextConfig]_vars

\* The same with prompts handled meanwhile
NextSelect ==
    \/ SelectionPicked
    \/ SetupProviderReturns
    \/ SelectionContinues
    \/ SelectionProbeReturns
    \/ AutoSetupFirstProbeReturns
    \/ AutoSetupSecondProbeReturns
    \/ AutoSetupWritesModel
    \/ \E p \in Prompts : HandleMessage(p)
    \/ \E p \in Prompts : ConfigureProviderReturns(p)
    \/ \E p \in Prompts : FirstProbeReturns(p)
    \/ \E p \in Prompts : SecondProbeReturns(p)
    \/ \E p \in Prompts : SendResolved(p)
    \/ \E p \in Prompts : SendMessageReturns(p)

SpecSelect == InitConfig /\ [][NextSelect]_vars

\* -------------------------------------------------------------------------
\* Vocabulary of the properties
\* -------------------------------------------------------------------------

requestedModel(p) == config[p].defaultModel

OnOllama(p) == config[p].defaultProvider = "ollama"

\* getSmartOllamaModel has returned to handleMessage, which has not resumed yet.
Resolved(p) == pc[p] = "resolved"

\* The resolver went through getSmartDefaultModel.
UsedSmartDefault(p) == smartDefault[p] # NoModel

\* Both probes of the resolution reported the same list.
OneSnapshot(p) == UsedSmartDefault(p) => smartAvailable[p] = availableModels[p]

\* The list the returned model was chosen from.
SnapshotUsed(p) ==
    IF UsedSmartDefault(p) THEN smartAvailable[p] ELSE availableModels[p]

SomePreferredIn(models) ==
    \E i \in 1..Len(codingPriority) : codingPriority[i] \in Range(models)

\* m is the entry of the priority list that is installed and has no installed
\* entry before it.
EarliestPreferred(m, models) ==
    \E i \in 1..Len(codingPriority) :
        /\ codingPriority[i] = m
        /\ m \in Range(models)
        /\ \A j \in 1..(i - 1) : codingPriority[j] \notin Range(models)

Switch(p) == [requested |-> requestedModel(p), resolved |-> modelToUse[p]]

\* The chat holds the "no models installed" failure of prompt p.
ResolutionFailed(p) ==
    \E i \in 1..Len(messages) :
        /\ messages[i].prompt = p
        /\ Contains(messages[i].content, << "No", "Ollama", "models", "installed" >>)

\* The replies (answers and error messages) the chat holds for prompt p.
Replies(p) ==
    {i \in 1..Len(messages) : messages[i].prompt = p /\ messages[i].role = "assistant"}

\* -------------------------------------------------------------------------
\* Properties
\* -------------------------------------------------------------------------

\* C1: whatever model is requested, a resolution whose probes both report the
\* same non-empty list does not fail and returns a model of that list.
C1_ResolvedModelInstalled ==
    \A p \in Prompts :
        /\ (Resolved(p) /\ OneSnapshot(p))
              => Includes(availableModels[p], modelToUse[p])
        /\ (OnOllama(p) /\ availableModels[p] # << >>) => ~ResolutionFailed(p)

C1_Witness ==
    \E p \in Prompts :
        /\ Resolved(p) /\ UsedSmartDefault(p)
        /\ smartAvailable[p] = availableModels[p]
        /\ Len(availableModels[p]) = 2
        /\ modelToUse[p] # requestedModel(p)

\* C2: every model getSmartOllamaModel returns is a member of the list it was
\* chosen from, also when the server changes or stops between the two probes.
C2_ReturnedModelInSnapshotUsed ==
    \A p \in Prompts :
        Resolved(p) => Includes(SnapshotUsed(p), modelToUse[p])

\* C3: the resolution fails exactly when the first probe reports no model, and
\* a failed resolution is followed by no sendMessage call.
C3_FailsIffNoneInstalled ==
    \A p \in Prompts :
        /\ pc[p] \in {"probe2", "resolved"} => availableModels[p] # << >>
        /\ ResolutionFailed(p) =>
              /\ availableModels[p] = << >>
              /\ requests[p] = << >>
              /\ pc[p] = "done"
              /\ Cardinality(Replies(p)) = 1

C3_Witness ==
    \E p \in Prompts :
        /\ ResolutionFailed(p)
        /\ serverUp /\ installed = << >>

\* C4: a requested model the probe lists is returned as it is, whatever else
\* is installed, and no switch is announced.
C4_ExactMatch ==
    \A p \in Prompts :
        (Resolved(p) /\ requestedModel(p) \in Range(availableModels[p]))
           => /\ modelToUse[p] = requestedModel(p)
              /\ notifications[p] = << >>

C4_Witness ==
    \E p \in Prompts :
        /\ Resolved(p)
        /\ requestedModel(p) = "llama2:latest"
        /\ availableModels[p] = << "qwen2.5-coder:7b", "llama2:latest" >>
        /\ modelToUse[p] = "llama2:latest"

\* C5: when the requested model is not installed and some entry of the
\* priority list is, the earliest installed entry is returned, whatever the
\* order of the installed list, and the switch is announced.
C5_Priority ==
    \A p \in Prompts :
        (/\ Resolved(p) /\ UsedSmartDefault(p)
         /\ smartAvailable[p] = availableModels[p]
         /\ SomePreferredIn(availableModels[p]))
           => /\ EarliestPreferred(modelToUse[p], availableModels[p])
              /\ notifications[p] = << Switch(p) >>
              /\ (/\ requestedModel(p) = "nonexistent:1b"
                  /\ Range(availableModels[p]) = {"codellama:7b", "qwen2.5-coder:7b"})
                    => modelToUse[p] = "qwen2.5-coder:7b"

C5_Witness ==
    \E p \in Prompts :
        /\ Resolved(p)
        /\ requestedModel(p) = "nonexistent:1b"
        /\ availableModels[p] = << "codellama:7b", "qwen2.5-coder:7b" >>
        /\ smartAvailable[p] = availableModels[p]
        /\ modelToUse[p] = "qwen2.5-coder:7b"

\* C6: when neither the requested model nor any entry of the priority list is
\* installed and something is, the first model the probe listed is returned.
C6_Fallback ==
    \A p \in Prompts :
        (/\ Resolved(p) /\ UsedSmartDefault(p)
         /\ smartAvailable[p] = availableModels[p]
         /\ ~SomePreferredIn(availableModels[p]))
           => /\ availableModels[p] # << >>
              /\ modelToUse[p] = availableModels[p][1]

C6_Witness ==
    \E p \in Prompts :
        /\ Resolved(p)
        /\ requestedModel(p) = "nonexistent:1b"
        /\ availableModels[p] = << "mistral:7b", "llama2:latest" >>
        /\ smartAvailable[p] = availableModels[p]
        /\ modelToUse[p] = "mistral:7b"

\* C7: a resolution that returns another model than the requested one issues
\* exactly one notification, naming both; one that returns the requested model
\* issues none.
C7_SwitchAnnounced ==
    \A p \in Prompts :
        IF OnOllama(p) /\ pc[p] \in {"resolved", "send", "done"}
           /\ modelToUse[p] # NoModel /\ modelToUse[p] # requestedModel(p)
        THEN notifications[p] = << Switch(p) >>
        ELSE notifications[p] = << >>

C7_Witness ==
    \E p \in Prompts :
        /\ pc[p] = "send"
        /\ modelToUse[p] # requestedModel(p)
        /\ notifications[p] = << Switch(p) >>

\* C8: on the self-hosted backend sendMessage receives the model the resolver
\* returned and the answer records that model and the backend; with
\* llama2:latest alone installed and qwen2.5-coder:7b requested, that model is
\* llama2:latest.
C8_SendsResolvedModel ==
    \A p \in Prompts :
        /\ (OnOllama(p) /\ requests[p] # << >>)
              => /\ requests[p] = << Request("ollama", modelToUse[p]) >>
                 /\ notifications[p] # << >>
                       => requests[p][1].model = notifications[p][1].resolved
                 /\ notifications[p] = << >>
                       => requests[p][1].model = requestedModel(p)
        /\ \A i \in Replies(p) :
              (OnOllama(p) /\ messages[i].content = ResponseText)
                 => /\ messages[i].model = requests[p][1].model
                    /\ messages[i].provider = "ollama"
        /\ (/\ Resolved(p) /\ requestedModel(p) = "qwen2.5-coder:7b"
            /\ availableModels[p] = << "llama2:latest" >>
            /\ smartAvailable[p] = << "llama2:latest" >>)
              => /\ modelToUse[p] = "llama2:latest"
                 /\ notifications[p] = << Switch(p) >>

C8_Witness ==
    \E p \in Prompts :
        /\ pc[p] = "done"
        /\ requestedModel(p) = "qwen2.5-coder:7b"
        /\ notifications[p] =
              << [requested |-> "qwen2.5-coder:7b", resolved |-> "llama2:latest"] >>
        /\ requests[p] = << Request("ollama", "llama2:latest") >>
        /\ \E i \in Replies(p) :
              /\ messages[i].content = ResponseText
              /\ messages[i].model = "llama2:latest"

\* C9: a prompt whose backend was found not configured is never sent, and
\* every sendMessage call goes to a backend that is configured.
C9_NoSendUnconfigured ==
    \A p \in Prompts :
        /\ keyPrompts[p] > 0 => requests[p] = << >>
        /\ requests[p] # << >> =>
              \/ requests[p][1].provider = "ollama"
              \/ requests[p][1].provider \in apiKeys

C9_Witness ==
    \E p \in Prompts :
        /\ pc[p] = "done"
        /\ keyPrompts[p] = 1
        /\ "openai" \in apiKeys
        /\ requests[p] = << >>

\* C10: every prompt handleMessage has finished with has exactly one reply in
\* the chat, an answer or an error message.
C10_EveryPromptAnswered ==
    \A p \in Prompts :
        pc[p] = "done" => Cardinality(Replies(p)) = 1

\* C11: the installed-model probe never fails: a refused connection, a timeout,
\* a failure status and a response without a model list each give the empty
\* list, the same result as a reachable server listing no models; a listing
\* gives the listed names.
C11_ProbeNeverFails ==
    call.op = "getAvailableOllamaModels" =>
        /\ ~outcome.threw
        /\ call.input.kind = "list" => outcome.value = call.input.models
        /\ call.input.kind # "list" => outcome.value = << >>

C11_Witness ==
    /\ call.op = "getAvailableOllamaModels"
    /\ call.input.kind = "timeout"
    /\ outcome = Returned(<< >>)

\* C12 as stated: the status probes getInstalledOllamaModels and
\* getLoadedOllamaModels yield the empty list, not an error, when the server
\* cannot be reached.
C12_StatusProbesYieldEmpty ==
    (/\ call.op \in {"getInstalledOllamaModels", "getLoadedOllamaModels"}
     /\ call.input.kind \in {"refused", "timeout"})
        => outcome = Returned(<< >>)

\* C12 amended: the status probes fail with their own error when the call to
\* the server fails, and yield the empty list only for a response of a
\* reachable server that holds no models.
C12_StatusProbesFail ==
    /\ call.op = "getInstalledOllamaModels" =>
          /\ call.input.kind \in {"refused", "timeout", "status"}
                => outcome = Threw(NotAccessible)
          /\ call.input.kind = "nolist" => outcome = Returned(<< >>)
          /\ call.input.kind = "list" => outcome = Returned(call.input.models)
    /\ call.op = "getLoadedOllamaModels" =>
          /\ call.input.kind \in {"refused", "timeout", "status"}
                => outcome = Threw(NoLoadedModels)
          /\ call.input.kind = "nolist" => outcome = Returned(<< >>)
          /\ call.input.kind = "list" => outcome = Returned(call.input.models)

C12_Witness ==
    /\ call.op = "getInstalledOllamaModels"
    /\ call.input.kind = "refused"
    /\ outcome = Threw(NotAccessible)

\* C13: a prompt addressed to the self-hosted backend while its server is
\* unreachable for the whole request ends with the "server not running"
\* message of the ServerUnreachable branch, not with "no models installed".
C13_UnreachableReported ==
    \A p \in Prompts :
        (pc[p] = "done" /\ OnOllama(p)) =>
            /\ \E i \in Replies(p) :
                  messages[i].content = << "Error", ":" >> \o OllamaNotRunning
            /\ ~ResolutionFailed(p)

\* C14: handleError takes exactly one branch per message: ServerUnreachable for
\* a message containing 'ECONNREFUSED' or 'not running', even if it also
\* matches a model pattern; otherwise ModelNotFound for 'not found' or 'does
\* not exist'; otherwise Unclassified with the message unchanged.
C14_ClassifierPriority ==
    call.op = "handleError" =>
        LET e == call.input
            server == Contains(e, << "ECONNREFUSED" >>)
                         \/ Contains(e, << "not", "running" >>)
            model == Contains(e, << "not", "found" >>)
                        \/ Contains(e, << "does", "not", "exist" >>)
        IN  /\ outcome.kind = IF server THEN "ServerUnreachable"
                              ELSE IF model THEN "ModelNotFound"
                              ELSE "Unclassified"
            /\ outcome.actions = IF server THEN ServerActions
                                 ELSE IF model THEN ModelActions
                                 ELSE << >>
            /\ ~server => outcome.message = e

C14_Witness ==
    /\ call.op = "handleError"
    /\ call.input = << "model", "not", "found", "server", "not", "running" >>
    /\ outcome.kind = "ServerUnreachable"

\* C15: an error of an absent credential is classified CredentialMissing and
\* a 401/403 rejection CredentialRejected, not Unclassified.
C15_CredentialKinds ==
    call.op = "handleError" =>
        /\ Contains(call.input, << "API", "key", "not", "configured" >>)
              => outcome.kind = "CredentialMissing"
        /\ (\/ Contains(call.input, << "Incorrect", "API", "key" >>)
            \/ Contains(call.input, << "status", "code", "401" >>))
              => outcome.kind = "CredentialRejected"

\* C16: sendMessage of every adapter either returns the completion text of
\* the response or fails; a transport error, a status outside 2xx and a body
\* lacking the completion field all fail, and none returns a value.
C16_TextOrFailure ==
    call.op = "sendMessage" =>
        /\ (~call.input.ok \/ call.input.completion = Undefined) => outcome.threw
        /\ ~outcome.threw =>
              /\ call.input.ok
              /\ outcome.value = call.input.completion
              /\ outcome.value # Undefined

\* C17: no retries: a prompt has at most one request, issued when handleMessage
\* calls sendMessage, and a prompt that ended in a failed send has exactly that
\* one request.
C17_NoRetry ==
    \A p \in Prompts :
        /\ Len(requests[p]) <= 1
        /\ requests[p] # << >> => pc[p] \in {"send", "done"}

C17_Witness ==
    \E p \in Prompts :
        /\ pc[p] = "done"
        /\ Len(requests[p]) = 1
        /\ \E i \in Replies(p) :
              messages[i].content =
                  << "Error", ":" >> \o HostedErrorPrefix("openai")
                      \o << "timeout", "of", "5000ms", "exceeded" >>

Position(seq, x) == CHOOSE i \in 1..Len(seq) : seq[i] = x

RegistrationOrder ==
    << "openai", "anthropic", "qwen", "deepseek", "mistral", "gemini", "groq",
       "ollama", "openrouter", "huggingface" >>

\* C18: getAllProviders returns the ten adapters in registration order on
\* every call; getConfiguredProviders returns, in that order and once each,
\* exactly the adapters configured at the time of the call; getProvider
\* returns the adapter registered under the identifier and nothing for any
\* other identifier.
C18_Registry ==
    /\ call.op = "getAllProviders" => outcome = RegistrationOrder
    /\ call.op = "getConfiguredProviders" =>
          /\ Range(outcome) =
                {name \in Range(RegistrationOrder) :
                    name = "ollama" \/ name \in call.keys}
          /\ \A i, j \in 1..Len(outcome) :
                i < j => Position(RegistrationOrder, outcome[i])
                            < Position(RegistrationOrder, outcome[j])
    /\ call.op = "getProvider" =>
          outcome = IF call.id \in Range(RegistrationOrder)
                    THEN call.id ELSE NoModel

C18_Witness ==
    /\ call.op = "getConfiguredProviders"
    /\ call.keys = {"groq", "openai"}
    /\ outcome = << "openai", "groq", "ollama" >>

\* C19: getModelForHardware answers every pair with a self-hosted model:
\* qwen2.5-coder:32b for 32 GB or more with an accelerator, else
\* qwen2.5-coder:14b for 16 GB or more with an accelerator, else
\* qwen2.5-coder:7b for 8 GB or more, else qwen2.5-coder:1.5b.
C19_HardwareTiers ==
    call.op = "getModelForHardware" =>
        /\ outcome.provider = "ollama"
        /\ outcome.model =
              IF call.ramGB >= 32 /\ call.hasGPU THEN "qwen2.5-coder:32b"
              ELSE IF call.ramGB >= 16 /\ call.hasGPU THEN "qwen2.5-coder:14b"
              ELSE IF call.ramGB >= 8 THEN "qwen2.5-coder:7b"
              ELSE "qwen2.5-coder:1.5b"
        /\ (call.ramGB = 4 /\ ~call.hasGPU) => outcome.model = "qwen2.5-coder:1.5b"

C19_Witness ==
    /\ call.op = "getModelForHardware"
    /\ call.ramGB = 32 /\ call.hasGPU
    /\ outcome.model = "qwen2.5-coder:32b"

Tiers ==
    << "qwen2.5-coder:1.5b", "qwen2.5-coder:7b", "qwen2.5-coder:14b",
       "qwen2.5-coder:32b" >>

AdjacentTiers(model) ==
    {Tiers[t] : t \in {u \in 1..Len(Tiers) :
                          \/ u + 1 = Position(Tiers, model)
                          \/ u - 1 = Position(Tiers, model)}}

Settled(p) == OnOllama(p) /\ pc[p] \in {"send", "done"}

\* C21: with the server's list the same for every probe, two resolutions of the
\* same requested model have the same outcome: the same model and the same
\* announcement of a switch, or a failure both times.
C21_Idempotent ==
    \A p, q \in Session :
        (/\ Settled(p) /\ Settled(q)
         /\ config[p].defaultModel = config[q].defaultModel)
            => /\ modelToUse[p] = modelToUse[q]
               /\ notifications[p] = notifications[q]
               /\ ResolutionFailed(p) <=> ResolutionFailed(q)

C21_Witness ==
    \E p, q \in Session :
        /\ p # q
        /\ Settled(p) /\ Settled(q)
        /\ serverUp
        /\ installed = << "llama2:latest", "codellama:7b" >>
        /\ modelToUse[p] = "codellama:7b"
        /\ modelToUse[q] = "codellama:7b"
        /\ Len(notifications[p]) = 1 /\ Len(notifications[q]) = 1

Awaiting == {"configure", "probe1", "probe2", "send"}

\* C23: while a prompt awaits its probe or its send, handleMessage can start
\* for the next prompt, and when two sends are in flight either may answer
\* first (no continuation being due to run before them).
C23_NoMutualExclusion ==
    \A p, q \in Session :
        /\ (/\ q = p + 1
            /\ pc[p] \in Awaiting
            /\ pc[q] = "idle"
            /\ ~Resuming) => ENABLED HandleMessage(q)
        /\ (pc[p] = "send" /\ pc[q] = "send" /\ ~Resuming)
              => ENABLED SendMessageReturns(p) /\ ENABLED SendMessageReturns(q)

C23_Witness ==
    \E p, q \in Session :
        /\ p < q
        /\ pc[p] = "send" /\ pc[q] = "send"
        /\ requests[p] = << Request("ollama", "llama2:latest") >>
        /\ requests[q] = requests[p]

\* The turns of prompt p in the log: its user turn and its replies.
UserTurns(p) ==
    {i \in 1..Len(messages) : messages[i].prompt = p /\ messages[i].role = "user"}

\* C30: the log only grows at its end; a prompt that has started has exactly
\* one user turn, at most one reply, and its reply comes after its user turn.
C30_AppendOnly ==
    /\ [](\A p \in Session :
            /\ Cardinality(UserTurns(p)) = IF pc[p] = "idle" THEN 0 ELSE 1
            /\ Cardinality(Replies(p)) <= 1
            /\ \A i \in Replies(p) : \E u \in UserTurns(p) : u < i)
    /\ [][/\ Len(messages') >= Len(messages)
          /\ SubSeq(messages', 1, Len(messages)) = messages]_vars

C30_Witness ==
    /\ Len(messages) = 4
    /\ messages[1].prompt = 1 /\ messages[1].role = "user"
    /\ messages[2].prompt = 2 /\ messages[2].role = "user"
    /\ messages[3].prompt = 2 /\ messages[3].role = "assistant"
    /\ messages[4].prompt = 1 /\ messages[4].role = "assistant"

\* The server lists at least one model.
SomeInstalled == serverUp /\ installed # << >>

\* autoSetup has finished without updating the configuration.
SetupWroteNothing == setup.pc = "done" /\ setup.smartModel = NoModel

\* C22: once a selection has completed (autoSetup having written nothing),
\* the stored model is one of the stored provider's models or, for the
\* self-hosted provider with models installed, an installed model.
C22_ModelFitsProvider ==
    (selection.pc = "done" /\ SetupWroteNothing) =>
        IF defaultProvider = "ollama"
        THEN SomeInstalled => defaultModel \in Range(installed)
        ELSE defaultModel \in providerModels(defaultProvider)

\* C25: with no selection made, autoSetup leaves the stored provider and model
\* as they were unless the stored provider was ollama or groq and the server
\* lists a model; then it stores ollama and the model getSmartDefaultModel
\* returns, an installed one.
C25_AutoSetupEffect ==
    selection.pc = "idle" =>
        LET stored == [defaultProvider |-> defaultProvider,
                       defaultModel |-> defaultModel]
            before == [defaultProvider |-> setup.currentProvider,
                       defaultModel |-> setup.currentModel]
            applies == /\ setup.currentProvider \in {"ollama", "groq"}
                       /\ SomeInstalled
        IN  /\ setup.pc \in {"probe1", "probe2"} => stored = before
            /\ setup.pc = "providerWritten" =>
                  stored = [before EXCEPT !.defaultProvider = "ollama"]
            /\ setup.pc = "done" =>
                  IF applies
                  THEN /\ stored = [defaultProvider |-> "ollama",
                                    defaultModel |-> setup.smartModel]
                       /\ defaultModel \in Range(installed)
                  ELSE stored = before

C25_Witness ==
    /\ selection.pc = "idle"
    /\ setup.pc = "done"
    /\ setup.currentProvider = "groq"
    /\ setup.currentModel = "llama-3.1-8b-instant"
    /\ defaultProvider = "ollama"
    /\ defaultModel = "codellama:7b"
    /\ installed = << "llama2:latest", "codellama:7b" >>

\* C26: once the user has completed a selection while autoSetup is awaiting a
\* probe, autoSetup does not change the stored provider or model.
C26_SelectionKept ==
    [][(selection.pc = "done" /\ setup.pc \in {"probe1", "probe2"})
          => (defaultProvider' = defaultProvider /\ defaultModel' = defaultModel)]_vars

\* C29: a selection of the self-hosted provider always stores a model: an
\* installed one when the server lists any model, qwen2.5-coder:7b when it
\* lists none or cannot be reached.
C29_SelectedModel ==
    (selection.pc = "done" /\ selection.provider = "ollama") =>
        IF SomeInstalled THEN selection.model \in Range(installed)
        ELSE selection.model = "qwen2.5-coder:7b"

C29_Witness ==
    /\ selection.pc = "done"
    /\ selection.provider = "ollama"
    /\ serverUp
    /\ installed = << "llama2:latest", "mistral:7b" >>
    /\ selection.model = "llama2:latest"
    /\ defaultModel = "llama2:latest"

\* A provider with a model stored for it: a self-hosted model with ollama, a
\* hosted provider's model with that provider.
StoredTogether(pair) ==
    \/ /\ pair.defaultProvider = "ollama"
       /\ pair.defaultModel \in OllamaDefaults \cup Installable
    \/ pair.defaultModel \in providerModels(pair.defaultProvider)

\* C27: a handleMessage that starts while the command's selection is between
\* its two updates reads a provider and a model that were stored together.
C27_NoMixedPair ==
    [][\A p \in Prompts :
          (/\ pc[p] = "idle" /\ pc'[p] # "idle"
           /\ selection.via = "command"
           /\ selection.pc \in {"providerWritten", "probe"}
           /\ setup.pc = "done")
              => StoredTogether(config'[p])]_vars

\* C24: every probe of a resolution stores what the server lists when the
\* probe is answered, whatever an earlier probe or prompt saw.
C24_FreshProbe ==
    [][\A p \in Session :
          /\ (pc[p] = "probe1" /\ pc'[p] # "probe1")
                => availableModels'[p] = IF serverUp THEN installed ELSE << >>
          /\ (pc[p] = "probe2" /\ pc'[p] # "probe2")
                => smartAvailable'[p] = IF serverUp THEN installed ELSE << >>]_vars

C24_Witness ==
    \E p, q \in Session :
        /\ p < q
        /\ pc[p] = "done"
        /\ notifications[p] =
              << [requested |-> "qwen2.5-coder:7b", resolved |-> "llama2:latest"] >>
        /\ Resolved(q)
        /\ modelToUse[q] = "qwen2.5-coder:7b"
        /\ availableModels[q] = << "llama2:latest", "qwen2.5-coder:7b" >>
        /\ notifications[q] = << >>

\* C28 as stated: no step of handleMessage changes the stored provider, the
\* stored model or the stored keys.
C28_NoConfigWrites ==
    [][pc' # pc =>
          /\ defaultProvider' = defaultProvider
          /\ defaultModel' = defaultModel
          /\ apiKeys' = apiKeys]_vars

\* C28 amended: handling a prompt never changes the stored provider or
\* model, so after a switch the stored model is still the requested one; a
\* key is stored only when configureProvider returns, for a prompt that is
\* not sent.
C28_OnlyKeysWritten ==
    /\ [][defaultProvider' = defaultProvider /\ defaultModel' = defaultModel]_vars
    /\ [][apiKeys' # apiKeys =>
              \E p \in Prompts : /\ pc[p] = "configure"
                                 /\ pc'[p] = "done"
                                 /\ requests'[p] = << >>]_vars
    /\ [](\A p \in Prompts :
             notifications[p] # << >> =>
                 /\ defaultModel = notifications[p][1].requested
                 /\ defaultModel # modelToUse[p])

C28_Witness ==
    \E p \in Prompts :
        /\ pc[p] = "done"
        /\ notifications[p] # << >>
        /\ defaultModel = "nonexistent:1b"
        /\ modelToUse[p] = "llama2:latest"
        /\ requests[p] = << Request("ollama", "llama2:latest") >>

====
